---- MODULE Spec2Model ----
(***************************************************************************)
(* Model of the dataset adapter (include/auto_data_adapter.py) and of the  *)
(* pipeline integrator (include/integrate_new_dataset.py), and of a run of  *)
(* the Airflow DAG bank_etl_dag (dags/bank_etl_dag.py).                    *)
(*                                                                         *)
(* Python dicts are functions with a string domain, lists are sequences,   *)
(* str values are strings.  A YAML file is [exists, data]: data is the     *)
(* dict yaml.safe_load(f) or {} yields for it.                             *)
(***************************************************************************)
EXTENDS Integers, Sequences, FiniteSets, TLC

VARIABLES
    \* ---- DatasetAdapter instance (auto_data_adapter.py) ----
    csv_header,         \* header row of the CSV behind self.csv_path
    df,                 \* self.df: [loaded, columns]
    dataset_type,       \* self.dataset_type ("None" until analyze_and_report)
    ret_type,           \* value last returned by detect_dataset_type ("None" before)
    detected_mappings,  \* self.detected_mappings
    generated,          \* the last generate_staging_sql call: the mappings it read,
                        \* its select_cols and the text it returned
    \* ---- PipelineIntegrator files (integrate_new_dataset.py) ----
    raw_sources_file,   \* config/raw_sources.yml
    backup_file,        \* config/raw_sources.yml.backup
    staging_files,      \* dbt/models/staging/stg_*.sql : name -> text
    staging_yml_file,   \* dbt/models/staging/staging.yml
    last,               \* the last integrator call: its arguments and outcome
    ncalls,             \* number of integrator calls made so far
    \* ---- one run of bank_etl_dag (dags/bank_etl_dag.py) ----
    task_state,         \* task id -> state of its task instance
    try_number          \* task id -> number of tries started

adapterVars == <<csv_header, df, dataset_type, ret_type, detected_mappings, generated>>
integratorVars == <<raw_sources_file, backup_file, staging_files,
                    staging_yml_file, last, ncalls>>
dagVars == <<task_state, try_number>>
vars == <<adapterVars, integratorVars, dagVars>>

\* ------------------------------------------------------------------------
\* Bounds
\* ------------------------------------------------------------------------
MaxCols == 4
MaxCalls == 2

\* ------------------------------------------------------------------------
\* Python str and pathlib helpers
\* ------------------------------------------------------------------------
UpperChars == "ABCDEFGHIJKLMNOPQRSTUVWXYZ"
LowerChars == "abcdefghijklmnopqrstuvwxyz"

CharAt(s, i) == SubSeq(s, i, i)

\* upper-case letter -> lower-case letter
LowerOfUpper ==
    [c \in {CharAt(UpperChars, i) : i \in 1..Len(UpperChars)} |->
        CharAt(LowerChars, CHOOSE i \in 1..Len(UpperChars) : CharAt(UpperChars, i) = c)]

\* str.lower() of one character
CharLower(c) == IF c \in DOMAIN LowerOfUpper THEN LowerOfUpper[c] ELSE c

RECURSIVE StrLower(_)
\* str.lower()
StrLower(s) ==
    IF Len(s) = 0 THEN ""
    ELSE CharLower(CharAt(s, 1)) \o StrLower(SubSeq(s, 2, Len(s)))

\* sub in s
StrContains(s, sub) ==
    \E i \in 1..(Len(s) - Len(sub) + 1) : SubSeq(s, i, i + Len(sub) - 1) = sub

RECURSIVE StrReplace(_, _, _)
\* str.replace(a, b) for a one-character a
StrReplace(s, a, b) ==
    IF Len(s) = 0 THEN ""
    ELSE (IF CharAt(s, 1) = a THEN b ELSE CharAt(s, 1))
         \o StrReplace(SubSeq(s, 2, Len(s)), a, b)

StrEndsWith(s, suf) ==
    Len(s) >= Len(suf) /\ SubSeq(s, Len(s) - Len(suf) + 1, Len(s)) = suf

\* x in list
InList(x, list) == \E i \in DOMAIN list : list[i] = x

\* sep.join(list)
RECURSIVE StrJoin(_, _)
StrJoin(sep, list) ==
    IF Len(list) = 0 THEN ""
    ELSE IF Len(list) = 1 THEN list[1]
    ELSE list[1] \o sep \o StrJoin(sep, Tail(list))

\* Path(p).name: the part after the last "/"
PathName(p) ==
    LET slashes == {i \in 1..Len(p) : CharAt(p, i) = "/"}
    IN  IF slashes = {} THEN p
        ELSE SubSeq(p, (CHOOSE i \in slashes : \A j \in slashes : j <= i) + 1, Len(p))

\* Path(p).stem: the name without its last suffix
PathStem(p) ==
    LET name == PathName(p)
        dots == {i \in 2..Len(name) : CharAt(name, i) = "."}
    IN  IF dots = {} \/ CharAt(name, Len(name)) = "." THEN name
        ELSE SubSeq(name, 1, (CHOOSE i \in dots : \A j \in dots : j <= i) - 1)

EmptyDict == <<>>

\* d[k] = v
DictSet(d, k, v) == (k :> v) @@ d

\* ------------------------------------------------------------------------
\* DatasetAdapter.COLUMN_MAPPINGS
\* ------------------------------------------------------------------------
\* keys of COLUMN_MAPPINGS, in declaration order
StandardCols ==
    <<"loan_id", "customer_id", "loan_amount", "asset_cost", "application_date",
      "date_of_birth", "loan_default", "employment_type", "gender", "state_id",
      "branch_id", "pincode_id", "product_id", "credit_score", "ltv_ratio">>

StandardColSet == {StandardCols[i] : i \in DOMAIN StandardCols}

COLUMN_MAPPINGS ==
    [loan_id |-> <<"uniqueid", "sk_id_curr", "loan_id", "application_id", "contract_id">>,
     customer_id |-> <<"uniqueid", "sk_id_curr", "customer_id", "client_id">>,
     loan_amount |-> <<"disbursed_amount", "amt_credit", "loan_amount", "credit_amount">>,
     asset_cost |-> <<"asset_cost", "amt_goods_price", "goods_price">>,
     application_date |-> <<"disbursaldate", "days_decision", "application_date", "disbursal_date">>,
     date_of_birth |-> <<"date_of_birth", "days_birth">>,
     loan_default |-> <<"loan_default", "target", "default_flag">>,
     employment_type |-> <<"employment_type", "name_income_type", "occupation_type">>,
     gender |-> <<"code_gender", "gender">>,
     state_id |-> <<"state_id", "region_rating_client">>,
     branch_id |-> <<"branch_id", "dealer_id">>,
     pincode_id |-> <<"current_pincode_id", "region_population_relative">>,
     product_id |-> <<"manufacturer_id", "product_id", "name_contract_type">>,
     credit_score |-> <<"perform_cns_score", "ext_source_1", "ext_source_2", "ext_source_3">>,
     ltv_ratio |-> <<"ltv", "amt_credit_sum_debt">>]

\* ------------------------------------------------------------------------
\* DatasetAdapter.detect_dataset_type
\* ------------------------------------------------------------------------
\* columns_lower = [col.lower() for col in self.df.columns]
RECURSIVE ColumnsLowerList(_)
ColumnsLowerList(columns) ==
    IF Len(columns) = 0 THEN <<>>
    ELSE <<StrLower(Head(columns))>> \o ColumnsLowerList(Tail(columns))

\* faulty variant: either vehicle-loan column is taken as the signature
DetectDatasetTypeAny(columns) ==
    LET columns_lower == ColumnsLowerList(columns)
    IN  IF InList("sk_id_curr", columns_lower) THEN "home_credit"
        ELSE IF InList("uniqueid", columns_lower) \/ InList("disbursaldate", columns_lower)
             THEN "vehicle_loan"
        ELSE "generic"

DetectDatasetTypeOf(columns) ==
    LET columns_lower == ColumnsLowerList(columns)
    IN  IF InList("sk_id_curr", columns_lower) THEN "home_credit"
        ELSE IF InList("uniqueid", columns_lower) /\ InList("disbursaldate", columns_lower)
             THEN "vehicle_loan"
        ELSE "generic"

\* ------------------------------------------------------------------------
\* DatasetAdapter.map_columns
\* ------------------------------------------------------------------------
\* columns_lower = {col.lower(): col for col in self.df.columns}
\* (a later column replaces an earlier one with the same lower-cased name)
\* faulty variant: the header names are not lower-cased
RECURSIVE ColumnsLowerDictCaseSensitive(_)
ColumnsLowerDictCaseSensitive(columns) ==
    IF Len(columns) = 0 THEN EmptyDict
    ELSE LET n == Len(columns)
         IN  DictSet(ColumnsLowerDictCaseSensitive(SubSeq(columns, 1, n - 1)),
                     columns[n], columns[n])

RECURSIVE ColumnsLowerDict(_)
ColumnsLowerDict(columns) ==
    IF Len(columns) = 0 THEN EmptyDict
    ELSE LET n == Len(columns)
         IN  DictSet(ColumnsLowerDict(SubSeq(columns, 1, n - 1)),
                     StrLower(columns[n]), columns[n])

\* faulty variant: the loop does not break, the last alias present wins
LastMatch(possible_names, columns_lower) ==
    CHOOSE i \in DOMAIN possible_names :
        /\ possible_names[i] \in DOMAIN columns_lower
        /\ \A j \in DOMAIN possible_names :
              j > i => possible_names[j] \notin DOMAIN columns_lower

\* the index at which the inner loop breaks: the first alias that is a key
FirstMatch(possible_names, columns_lower) ==
    CHOOSE i \in DOMAIN possible_names :
        /\ possible_names[i] \in DOMAIN columns_lower
        /\ \A j \in 1..(i - 1) : possible_names[j] \notin DOMAIN columns_lower

\* the mapping map_columns builds from the header, starting from an empty dict
MapColumnsOf(columns) ==
    LET columns_lower == ColumnsLowerDict(columns)
        matched == {c \in StandardColSet :
                       \E i \in DOMAIN COLUMN_MAPPINGS[c] :
                           COLUMN_MAPPINGS[c][i] \in DOMAIN columns_lower}
    IN  [c \in matched |->
            columns_lower[COLUMN_MAPPINGS[c][FirstMatch(COLUMN_MAPPINGS[c], columns_lower)]]]

\* ------------------------------------------------------------------------
\* DatasetAdapter.generate_staging_sql
\* ------------------------------------------------------------------------
\* a list of one line when the attribute is mapped, the empty list otherwise
IfMapped(m, col, line) == IF col \in DOMAIN m THEN <<line>> ELSE <<>>

\* faulty variant: every cast is to string
CastLineAsString(m, col, type) ==
    "    cast(" \o m[col] \o " as string) as " \o col

CastLine(m, col, type) ==
    "    cast(" \o m[col] \o " as " \o type \o ") as " \o col

DayOffsetLine(m, col) ==
    "    date_add(current_date(), interval cast(" \o m[col] \o " as int64) day) as " \o col

ParseDateLine(m, col) ==
    "    safe.parse_date('%d-%m-%y', cast(" \o m[col] \o " as string)) as " \o col

\* faulty variant: 'days' is looked for in the name as written
DateLineCaseSensitive(m, col) ==
    IF StrContains(m[col], "days")
    THEN DayOffsetLine(m, col)
    ELSE ParseDateLine(m, col)

\* the branch on 'days' in date_col.lower()
DateLine(m, col) ==
    IF StrContains(StrLower(m[col]), "days")
    THEN DayOffsetLine(m, col)
    ELSE ParseDateLine(m, col)

AmountCols == <<"loan_amount", "asset_cost", "ltv_ratio">>
StringCols == <<"employment_type", "gender", "state_id", "branch_id", "pincode_id", "product_id">>

RECURSIVE CastLines(_, _, _)
\* for col in cols: if col in self.detected_mappings: select_cols.append(cast line)
CastLines(m, cols, type) ==
    IF Len(cols) = 0 THEN <<>>
    ELSE IfMapped(m, Head(cols), CastLine(m, Head(cols), type))
         \o CastLines(m, Tail(cols), type)

\* faulty variant: the target attribute is not projected
SelectColsNoTarget(m) ==
    CastLines(m, <<"loan_id", "customer_id">>, "string")
    \o IfMapped(m, "application_date", DateLine(m, "application_date"))
    \o IfMapped(m, "date_of_birth", DateLine(m, "date_of_birth"))
    \o CastLines(m, AmountCols, "numeric")
    \o CastLines(m, StringCols, "string")
    \o CastLines(m, <<"credit_score">>, "int64")

\* select_cols as generate_staging_sql builds it from self.detected_mappings
SelectCols(m) ==
    CastLines(m, <<"loan_id", "customer_id">>, "string")
    \o IfMapped(m, "application_date", DateLine(m, "application_date"))
    \o IfMapped(m, "date_of_birth", DateLine(m, "date_of_birth"))
    \o CastLines(m, AmountCols, "numeric")
    \o CastLines(m, StringCols, "string")
    \o CastLines(m, <<"loan_default">>, "int64")
    \o CastLines(m, <<"credit_score">>, "int64")

\* the text generate_staging_sql returns for these select_cols
StagingSqlText(cols, source_name) ==
    StrJoin("\n",
        <<"{{ config(materialized='view') }}",
          "",
          "with src as (",
          "  select * from {{ source('raw', '" \o source_name \o "') }}",
          "),",
          "",
          "transformed as (",
          "  select",
          StrJoin(",\n", cols),
          "  from src",
          ")",
          "",
          "select * from transformed">>)

\* ------------------------------------------------------------------------
\* The adapter as a state machine
\* ------------------------------------------------------------------------
\* column names a CSV header is made of
ColumnNames ==
    {"SK_ID_CURR", "AMT_CREDIT", "DAYS_BIRTH", "TARGET",
     "UniqueID", "DisbursalDate", "Date_of_Birth", "DAYS_DECISION",
     "Target"}

RECURSIVE HeadersUpTo(_)
\* headers of at most n columns; pandas keeps the names of a header distinct
HeadersUpTo(n) ==
    IF n = 0 THEN {<<>>}
    ELSE LET shorter == HeadersUpTo(n - 1)
         IN  shorter \cup
             {Append(h, c) : h \in {g \in shorter : Len(g) = n - 1},
                             c \in ColumnNames}

Distinct(h) == \A i, j \in DOMAIN h : h[i] = h[j] => i = j

Headers == {h \in HeadersUpTo(MaxCols) : Len(h) > 0 /\ Distinct(h)}

\* column names that are aliases of the identifier, amount, ratio and target
\* attributes
CastColumnNames ==
    {"UniqueID", "Customer_ID", "AMT_CREDIT", "AMT_GOODS_PRICE", "LTV", "TARGET"}

RECURSIVE CastHeadersUpTo(_)
CastHeadersUpTo(n) ==
    IF n = 0 THEN {<<>>}
    ELSE LET shorter == CastHeadersUpTo(n - 1)
         IN  shorter \cup
             {Append(h, c) : h \in {g \in shorter : Len(g) = n - 1},
                             c \in CastColumnNames}

CastHeaders == {h \in CastHeadersUpTo(MaxCols) : Len(h) > 0 /\ Distinct(h)}

\* names generate_staging_sql is called with
AdapterSourceNames == {"application_train_raw"}

NotGenerated ==
    [called |-> FALSE, mappings |-> EmptyDict, source_name |-> "",
     select_cols |-> <<>>, text |-> ""]

\* DatasetAdapter.__init__
AdapterNew ==
    /\ df = [loaded |-> FALSE, columns |-> <<>>]
    /\ dataset_type = "None"
    /\ ret_type = "None"
    /\ detected_mappings = EmptyDict
    /\ generated = NotGenerated

AdapterInit ==
    /\ csv_header \in Headers
    /\ AdapterNew

AdapterInitCasts ==
    /\ csv_header \in CastHeaders
    /\ AdapterNew

\* no adapter is in use
AdapterIdle ==
    /\ csv_header = <<>>
    /\ AdapterNew

\* pd.read_csv(self.csv_path, nrows=5).columns
ReadCsvColumns == [loaded |-> TRUE, columns |-> csv_header]

DetectDatasetType ==
    /\ df' = ReadCsvColumns
    /\ ret_type' = DetectDatasetTypeOf(df'.columns)
    /\ UNCHANGED <<csv_header, dataset_type, detected_mappings, generated>>
    /\ UNCHANGED <<integratorVars, dagVars>>

\* self.df.columns raises while self.df is None
MapColumns ==
    /\ df.loaded
    /\ detected_mappings' = MapColumnsOf(df.columns)
    /\ UNCHANGED <<csv_header, df, dataset_type, ret_type, generated>>
    /\ UNCHANGED <<integratorVars, dagVars>>

AnalyzeAndReport ==
    /\ df' = ReadCsvColumns
    /\ ret_type' = DetectDatasetTypeOf(df'.columns)
    /\ dataset_type' = ret_type'
    /\ detected_mappings' = MapColumnsOf(df'.columns)
    /\ UNCHANGED <<csv_header, generated>>
    /\ UNCHANGED <<integratorVars, dagVars>>

GenerateStagingSql ==
    /\ \E source_name \in AdapterSourceNames :
        LET select_cols == SelectCols(detected_mappings)
        IN  generated' = [called |-> TRUE,
                          mappings |-> detected_mappings,
                          source_name |-> source_name,
                          select_cols |-> select_cols,
                          text |-> StagingSqlText(select_cols, source_name)]
    /\ UNCHANGED <<csv_header, df, dataset_type, ret_type, detected_mappings>>
    /\ UNCHANGED <<integratorVars, dagVars>>

NextAdapter ==
    \/ DetectDatasetType
    \/ MapColumns
    \/ AnalyzeAndReport
    \/ GenerateStagingSql

\* ------------------------------------------------------------------------
\* Python dict helpers
\* ------------------------------------------------------------------------
\* d.setdefault(k, v)
DictSetDefault(d, k, v) == IF k \in DOMAIN d THEN d ELSE DictSet(d, k, v)

\* [e.get("name") for e in list]
NamesOf(list) == [i \in DOMAIN list |-> list[i].name]

AbsentFile == [exists |-> FALSE, data |-> EmptyDict]

\* the file after open(file, "w") and yaml.dump(config, f)
WrittenFile(config) == [exists |-> TRUE, data |-> config]

\* yaml.safe_load(f) or {} ; an absent file is not opened
LoadedOrEmpty(file) == IF file.exists THEN file.data ELSE EmptyDict

\* ------------------------------------------------------------------------
\* PipelineIntegrator._update_raw_sources_config
\* ------------------------------------------------------------------------
NewSource(source_name, csv_path, project_id, dataset_id) ==
    [name |-> source_name,
     project_id |-> project_id,
     dataset_id |-> dataset_id,
     table_id |-> source_name,
     csv_path |-> "/usr/local/airflow/data/" \o PathName(csv_path)]

\* faulty variant: no check for an existing entry
UpdateRawSourcesConfigAlways(file, source_name, csv_path, project_id, dataset_id) ==
    LET loaded == LoadedOrEmpty(file)
        config == DictSetDefault(loaded, "raw_sources", <<>>)
    IN  [file |-> WrittenFile(DictSet(config, "raw_sources",
                      Append(config["raw_sources"],
                             NewSource(source_name, csv_path, project_id, dataset_id)))),
         outcome |-> "updated"]

\* faulty variant: the new entry is put first
UpdateRawSourcesConfigFront(file, source_name, csv_path, project_id, dataset_id) ==
    LET loaded == LoadedOrEmpty(file)
        config == DictSetDefault(loaded, "raw_sources", <<>>)
        existing_names == NamesOf(config["raw_sources"])
    IN  IF InList(source_name, existing_names)
        THEN [file |-> file, outcome |-> "skip"]
        ELSE [file |-> WrittenFile(DictSet(config, "raw_sources",
                          <<NewSource(source_name, csv_path, project_id, dataset_id)>>
                          \o config["raw_sources"])),
              outcome |-> "updated"]

\* the registry file after the call, and what the call reported
UpdateRawSourcesConfigOf(file, source_name, csv_path, project_id, dataset_id) ==
    LET loaded == LoadedOrEmpty(file)
        config == DictSetDefault(loaded, "raw_sources", <<>>)
        existing_names == NamesOf(config["raw_sources"])
    IN  IF InList(source_name, existing_names)
        THEN [file |-> file, outcome |-> "skip"]
        ELSE [file |-> WrittenFile(DictSet(config, "raw_sources",
                          Append(config["raw_sources"],
                                 NewSource(source_name, csv_path, project_id, dataset_id)))),
              outcome |-> "updated"]

\* ------------------------------------------------------------------------
\* PipelineIntegrator._update_staging_yml
\* ------------------------------------------------------------------------
\* the skeleton used when staging.yml does not exist
StagingSkeleton == [version |-> 2, sources |-> <<>>, models |-> <<>>]

\* index of the first source block named 'raw', 0 when there is none
RawSourceIndex(sources) ==
    IF InList("raw", NamesOf(sources))
    THEN CHOOSE i \in DOMAIN sources :
             /\ sources[i].name = "raw"
             /\ \A j \in 1..(i - 1) : sources[j].name /= "raw"
    ELSE 0

NewRawSource(project_id, dataset_id) ==
    [name |-> "raw", database |-> project_id, schema |-> dataset_id, tables |-> <<>>]

\* faulty variant: database and schema are assigned, not defaulted
FillRawSourceOverwrite(raw_source, project_id, dataset_id) ==
    DictSetDefault(DictSet(DictSet(raw_source,
        "database", project_id), "schema", dataset_id), "tables", <<>>)

\* the three setdefault calls on an existing 'raw' block
FillRawSource(raw_source, project_id, dataset_id) ==
    DictSetDefault(DictSetDefault(DictSetDefault(raw_source,
        "database", project_id), "schema", dataset_id), "tables", <<>>)

\* faulty variant: no check for an existing name
AddNamedAlways(list, name, entry) == Append(list, entry)

\* append entry unless an element of the list already has that name
AddNamed(list, name, entry) ==
    IF InList(name, NamesOf(list)) THEN list ELSE Append(list, entry)

NewModel(staging_model_name) ==
    [name |-> staging_model_name,
     columns |-> <<[name |-> "loan_id", tests |-> <<"not_null">>],
                   [name |-> "customer_id", tests |-> <<"not_null">>]>>]

\* the manifest file after the call
UpdateStagingYmlOf(file, source_name, project_id, dataset_id, staging_model_name) ==
    LET loaded == IF file.exists THEN file.data ELSE StagingSkeleton
        config == DictSetDefault(DictSetDefault(DictSetDefault(loaded,
                      "version", 2), "sources", <<>>), "models", <<>>)
        idx == RawSourceIndex(config["sources"])
        sources == IF idx = 0
                   THEN Append(config["sources"], NewRawSource(project_id, dataset_id))
                   ELSE [config["sources"] EXCEPT
                            ![idx] = FillRawSource(@, project_id, dataset_id)]
        at == IF idx = 0 THEN Len(sources) ELSE idx
        raw_source == sources[at]
        with_table == DictSet(raw_source, "tables",
                          AddNamed(raw_source["tables"], source_name,
                                   [name |-> source_name]))
        models == AddNamed(config["models"], staging_model_name,
                           NewModel(staging_model_name))
    IN  WrittenFile(DictSet(DictSet(config,
            "sources", [sources EXCEPT ![at] = with_table]), "models", models))

\* ------------------------------------------------------------------------
\* PipelineIntegrator.add_dataset
\* ------------------------------------------------------------------------
\* the CSV files under airflow_home: what pd.read_csv finds at each path, and
\* the first line it takes as the header.  no_header.csv starts with a data
\* row: read_csv has no way to tell and names the columns after its values.
CsvFiles ==
    [p \in {"data/application_train.csv", "data/Vehicle-Loans.csv",
            "data/no_header.csv",
            "data/missing.csv", "data/empty.csv", "data/broken.csv"} |->
        CASE p = "data/application_train.csv" ->
                 [status |-> "ok", has_header |-> TRUE,
                  header |-> <<"SK_ID_CURR", "AMT_CREDIT", "DAYS_BIRTH", "TARGET">>]
          [] p = "data/Vehicle-Loans.csv" ->
                 [status |-> "ok", has_header |-> TRUE,
                  header |-> <<"UniqueID", "DisbursalDate", "Date_of_Birth",
                               "loan_default", "ltv">>]
          [] p = "data/no_header.csv" ->
                 [status |-> "ok", has_header |-> FALSE,
                  header |-> <<"100002", "406597.5", "-9461", "1">>]
          [] p = "data/missing.csv" ->
                 [status |-> "missing", has_header |-> FALSE, header |-> <<>>]
          [] p = "data/empty.csv" ->
                 [status |-> "empty", has_header |-> FALSE, header |-> <<>>]
          [] OTHER -> [status |-> "unparseable", has_header |-> FALSE, header |-> <<>>]]

CsvPaths == DOMAIN CsvFiles

\* pd.read_csv raises FileNotFoundError, EmptyDataError or ParserError
ReadCsvRaises(csv_path) == CsvFiles[csv_path].status /= "ok"

\* table_name = csv_path.stem.lower().replace("-", "_").replace(" ", "_")
TableName(csv_path) ==
    StrReplace(StrReplace(StrLower(PathStem(csv_path)), "-", "_"), " ", "_")

SourceName(csv_path) == TableName(csv_path) \o "_raw"
StagingModelName(csv_path) == "stg_" \o TableName(csv_path)

\* shutil.copy(self.raw_sources_file, backup_file), when asked for and possible
BackupOf(create_backup) ==
    IF create_backup /\ raw_sources_file.exists THEN raw_sources_file ELSE backup_file

\* steps 1, 2 and 5 of add_dataset on a readable CSV: the names derived from
\* the path and the query synthesized from the analysed header
AnalyzedCsv(csv_path) ==
    LET source_name == SourceName(csv_path)
        mappings == MapColumnsOf(CsvFiles[csv_path].header)
    IN  [csv_path |-> csv_path,
         source_name |-> source_name,
         staging_model_name |-> StagingModelName(csv_path),
         staging_sql |-> StagingSqlText(SelectCols(mappings), source_name)]

\* the analysis depends on the file only: one record per readable CSV
AnalyzedCsvs == {AnalyzedCsv(p) : p \in {q \in CsvPaths : ~ReadCsvRaises(q)}}

AnalysisOf(csv_path) == CHOOSE a \in AnalyzedCsvs : a.csv_path = csv_path

\* faulty variant: the manifest gets the table name, not the source name
IntegrateAnalyzedTableName(csv_path, project_id, dataset_id, create_backup) ==
    LET a == AnalysisOf(csv_path)
        updated == UpdateRawSourcesConfigOf(raw_sources_file, a.source_name, csv_path,
                                            project_id, dataset_id)
    IN  [raw_sources_file |-> updated.file,
         backup_file |-> BackupOf(create_backup),
         staging_files |-> DictSet(staging_files, a.staging_model_name \o ".sql",
                                   a.staging_sql),
         staging_yml_file |-> UpdateStagingYmlOf(staging_yml_file, TableName(csv_path),
                                  project_id, dataset_id, a.staging_model_name),
         outcome |-> "integrated"]

\* steps 3 to 7 of add_dataset, after the analysis succeeded
IntegrateAnalyzed(csv_path, project_id, dataset_id, create_backup) ==
    LET a == AnalysisOf(csv_path)
        updated == UpdateRawSourcesConfigOf(raw_sources_file, a.source_name, csv_path,
                                            project_id, dataset_id)
    IN  [raw_sources_file |-> updated.file,
         backup_file |-> BackupOf(create_backup),
         staging_files |-> DictSet(staging_files, a.staging_model_name \o ".sql",
                                   a.staging_sql),
         staging_yml_file |-> UpdateStagingYmlOf(staging_yml_file, a.source_name,
                                  project_id, dataset_id, a.staging_model_name),
         outcome |-> "integrated"]

FilesUnchanged ==
    [raw_sources_file |-> raw_sources_file,
     backup_file |-> backup_file,
     staging_files |-> staging_files,
     staging_yml_file |-> staging_yml_file,
     outcome |-> "error"]

\* the files after add_dataset, and how it ended
AddDatasetOf(csv_path, project_id, dataset_id, create_backup) ==
    IF ReadCsvRaises(csv_path)
    THEN FilesUnchanged
    ELSE IntegrateAnalyzed(csv_path, project_id, dataset_id, create_backup)

\* ------------------------------------------------------------------------
\* The integrator as a state machine
\* ------------------------------------------------------------------------
SourceNames == {"application_train_raw", "vehicle_loans_raw"}
ModelNames == {"stg_application_train", "stg_vehicle_loans"}
\* (project id, dataset id) pairs the calls are made with
Coordinates == {<<"proj-a", "raw_a">>, <<"proj-b", "raw_b">>}
OkCsvPaths == {p \in CsvPaths : ~ReadCsvRaises(p)}

\* a registry written by hand or by an earlier run
ExistingRegistry ==
    WrittenFile([raw_sources |->
        <<[name |-> "vehicle_loans_raw",
           project_id |-> "manual-project",
           dataset_id |-> "manual_raw",
           table_id |-> "loan_applications_raw",
           csv_path |-> "/usr/local/airflow/data/vehicle_loans_train.csv"]>>])

\* a manifest edited by hand: another source block first, coordinates set
EditedManifest ==
    WrittenFile([version |-> 2,
                 sources |-> <<[name |-> "seeds", tables |-> <<>>],
                               [name |-> "raw",
                                database |-> "manual-project",
                                schema |-> "manual_raw",
                                tables |-> <<[name |-> "vehicle_loans_raw"]>>]>>,
                 models |-> <<>>])

\* a manifest whose 'raw' block has no coordinates and no tables yet
BareManifest == WrittenFile([sources |-> <<[name |-> "raw"]>>])

InitialRegistries == {AbsentFile, WrittenFile(EmptyDict), ExistingRegistry}
InitialManifests == {AbsentFile, BareManifest, EditedManifest}

NoCall ==
    [op |-> "none", source_name |-> "", csv_path |-> "", project_id |-> "",
     dataset_id |-> "", staging_model_name |-> "", create_backup |-> FALSE,
     outcome |-> "", repeat |-> FALSE]

ArgFields ==
    {"op", "source_name", "csv_path", "project_id", "dataset_id",
     "staging_model_name", "create_backup"}

\* the record of a call, marked when it repeats the call before it
Recorded(call) ==
    [call EXCEPT !.repeat = \A f \in ArgFields : call[f] = last[f]]

IntegratorNew ==
    /\ backup_file = AbsentFile
    /\ staging_files = EmptyDict
    /\ last = NoCall
    /\ ncalls = 0

IntegratorInit ==
    /\ raw_sources_file \in InitialRegistries
    /\ staging_yml_file \in InitialManifests
    /\ IntegratorNew

\* no integrator is in use
IntegratorIdle ==
    /\ raw_sources_file = AbsentFile
    /\ staging_yml_file = AbsentFile
    /\ IntegratorNew

UpdateRawSourcesConfig ==
    /\ ncalls < MaxCalls
    /\ \E source_name \in SourceNames, csv_path \in OkCsvPaths, c \in Coordinates :
        LET updated == UpdateRawSourcesConfigOf(raw_sources_file, source_name,
                                                csv_path, c[1], c[2])
        IN  /\ raw_sources_file' = updated.file
            /\ last' = Recorded([NoCall EXCEPT !.op = "update_raw_sources_config",
                                               !.source_name = source_name,
                                               !.csv_path = csv_path,
                                               !.project_id = c[1],
                                               !.dataset_id = c[2],
                                               !.outcome = updated.outcome])
    /\ ncalls' = ncalls + 1
    /\ UNCHANGED <<backup_file, staging_files, staging_yml_file>>
    /\ UNCHANGED <<adapterVars, dagVars>>

UpdateStagingYml ==
    /\ ncalls < MaxCalls
    /\ \E source_name \in SourceNames, model \in ModelNames, c \in Coordinates :
        /\ staging_yml_file' = UpdateStagingYmlOf(staging_yml_file, source_name,
                                                  c[1], c[2], model)
        /\ last' = Recorded([NoCall EXCEPT !.op = "update_staging_yml",
                                           !.source_name = source_name,
                                           !.staging_model_name = model,
                                           !.project_id = c[1],
                                           !.dataset_id = c[2],
                                           !.outcome = "updated"])
    /\ ncalls' = ncalls + 1
    /\ UNCHANGED <<raw_sources_file, backup_file, staging_files>>
    /\ UNCHANGED <<adapterVars, dagVars>>

AddDataset ==
    /\ ncalls < MaxCalls
    /\ \E csv_path \in CsvPaths, c \in Coordinates, create_backup \in BOOLEAN :
        LET after == AddDatasetOf(csv_path, c[1], c[2], create_backup)
        IN  /\ raw_sources_file' = after.raw_sources_file
            /\ backup_file' = after.backup_file
            /\ staging_files' = after.staging_files
            /\ staging_yml_file' = after.staging_yml_file
            /\ last' = Recorded([NoCall EXCEPT !.op = "add_dataset",
                                               !.csv_path = csv_path,
                                               !.project_id = c[1],
                                               !.dataset_id = c[2],
                                               !.create_backup = create_backup,
                                               !.outcome = after.outcome])
    /\ ncalls' = ncalls + 1
    /\ UNCHANGED <<adapterVars, dagVars>>

NextIntegrator ==
    \/ UpdateRawSourcesConfig
    \/ UpdateStagingYml
    \/ AddDataset

\* ------------------------------------------------------------------------
\* A merger stopped inside its write: open(file, "w") then yaml.dump(config, f)
\* ------------------------------------------------------------------------
\* ---- the text yaml.dump(config, f, default_flow_style=False,
\* ---- sort_keys=False) emits, as the list of the emitter's writes to f
RECURSIVE Spaces(_)
Spaces(n) == IF n = 0 THEN "" ELSE " " \o Spaces(n - 1)

\* the emitter starts a line at this indent
IndentWrites(indent) ==
    <<"\n">> \o (IF indent > 0 THEN <<Spaces(indent)>> ELSE <<>>)

\* the next item of a block sequence at this indent
ItemWrites(indent) == IndentWrites(indent) \o <<"-">>

\* a plain scalar after ':' or '-'
PlainWrites(text) == <<" ", text>>

\* a key of a block mapping at this indent; the first key of a mapping that
\* is a sequence item follows the '-' on its line
KeyWrites(key, first, indent) ==
    (IF first THEN (IF indent > 0 THEN <<" ">> ELSE <<>>) ELSE IndentWrites(indent))
    \o <<key, ":">>

\* an empty list is written in flow style
EmptyListWrites == <<" [", "]">>

\* the keys of the dict in the order they were inserted
KeysIn(d, order) == SelectSeq(order, LAMBDA k : k \in DOMAIN d)

RECURSIVE ScalarFieldWrites(_, _, _, _)
\* the keys (from the i-th on) of a mapping of plain scalars
ScalarFieldWrites(d, keys, i, indent) ==
    IF i > Len(keys) THEN <<>>
    ELSE KeyWrites(keys[i], i = 1, indent) \o PlainWrites(d[keys[i]])
         \o ScalarFieldWrites(d, keys, i + 1, indent)

SourceKeys == <<"name", "project_id", "dataset_id", "table_id", "csv_path">>

RECURSIVE RawSourcesWrites(_, _)
\* the items of the raw_sources list
RawSourcesWrites(list, i) ==
    IF i > Len(list) THEN <<>>
    ELSE ItemWrites(0)
         \o ScalarFieldWrites(list[i], KeysIn(list[i], SourceKeys), 1, 2)
         \o RawSourcesWrites(list, i + 1)

\* the writes of the dump of a registry config
RegistryWrites(config) ==
    <<"raw_sources", ":">>
    \o (IF Len(config["raw_sources"]) = 0 THEN EmptyListWrites
        ELSE RawSourcesWrites(config["raw_sources"], 1))
    \o <<"\n">>

RECURSIVE TablesWrites(_, _)
\* the items of a source block's tables list
TablesWrites(list, i) ==
    IF i > Len(list) THEN <<>>
    ELSE ItemWrites(2) \o KeyWrites("name", TRUE, 4) \o PlainWrites(list[i].name)
         \o TablesWrites(list, i + 1)

BlockKeys == <<"name", "database", "schema", "tables">>

RECURSIVE BlockFieldWrites(_, _, _)
\* the keys (from the i-th on) of a source block
BlockFieldWrites(block, keys, i) ==
    IF i > Len(keys) THEN <<>>
    ELSE KeyWrites(keys[i], i = 1, 2)
         \o (IF keys[i] /= "tables" THEN PlainWrites(block[keys[i]])
             ELSE IF Len(block["tables"]) = 0 THEN EmptyListWrites
             ELSE TablesWrites(block["tables"], 1))
         \o BlockFieldWrites(block, keys, i + 1)

RECURSIVE SourcesWrites(_, _)
\* the items of the sources list
SourcesWrites(list, i) ==
    IF i > Len(list) THEN <<>>
    ELSE ItemWrites(0) \o BlockFieldWrites(list[i], KeysIn(list[i], BlockKeys), 1)
         \o SourcesWrites(list, i + 1)

RECURSIVE TestsWrites(_, _)
\* the items of a column's tests list
TestsWrites(list, i) ==
    IF i > Len(list) THEN <<>>
    ELSE ItemWrites(4) \o PlainWrites(list[i]) \o TestsWrites(list, i + 1)

RECURSIVE ColumnsWrites(_, _)
\* the items of a model's columns list
ColumnsWrites(list, i) ==
    IF i > Len(list) THEN <<>>
    ELSE ItemWrites(2) \o KeyWrites("name", TRUE, 4) \o PlainWrites(list[i].name)
         \o KeyWrites("tests", FALSE, 4) \o TestsWrites(list[i].tests, 1)
         \o ColumnsWrites(list, i + 1)

RECURSIVE ModelsWrites(_, _)
\* the items of the models list
ModelsWrites(list, i) ==
    IF i > Len(list) THEN <<>>
    ELSE ItemWrites(0) \o KeyWrites("name", TRUE, 2) \o PlainWrites(list[i].name)
         \o KeyWrites("columns", FALSE, 2) \o ColumnsWrites(list[i].columns, 1)
         \o ModelsWrites(list, i + 1)

\* the writes of the dump of a manifest config whose keys were inserted in
\* the order version, sources, models
ManifestWrites(config) ==
    KeyWrites("version", TRUE, 0) \o PlainWrites(ToString(config["version"]))
    \o KeyWrites("sources", FALSE, 0)
    \o (IF Len(config["sources"]) = 0 THEN EmptyListWrites
        ELSE SourcesWrites(config["sources"], 1))
    \o KeyWrites("models", FALSE, 0)
    \o (IF Len(config["models"]) = 0 THEN EmptyListWrites
        ELSE ModelsWrites(config["models"], 1))
    \o <<"\n">>

RECURSIVE DumpedTexts(_, _, _)
\* for the writes lo..hi, the text they have added up to after each of them
DumpedTexts(writes, lo, hi) ==
    IF lo = hi THEN <<writes[lo]>>
    ELSE LET mid == (lo + hi) \div 2
             first == DumpedTexts(writes, lo, mid)
             rest == DumpedTexts(writes, mid + 1, hi)
             base == first[Len(first)]
         IN  first \o [i \in 1..Len(rest) |-> base \o rest[i]]

\* the texts the stream holds after each write except the last one
DumpedPrefixes(writes) ==
    LET texts == DumpedTexts(writes, 1, Len(writes))
    IN  {texts[k] : k \in 1..(Len(writes) - 1)}

\* open(file, "w") has created or emptied the file and nothing was written
TruncatedFile == WrittenFile(EmptyDict)

\* a file that holds the first part of a dumped text
CutFile(text) == [exists |-> TRUE, text |-> text]

\* what the file can hold when the run stops between the mkdir and the end of
\* the with block: the old content (stopped before open), nothing (stopped
\* after open), the first writes of the dump (an exception raised inside
\* yaml.dump leaves the with block, which closes the file and flushes what
\* was written so far), or the new content
StoppedWriteOf(file, written, writes) ==
    {file, TruncatedFile, written}
    \cup {CutFile(text) : text \in DumpedPrefixes(writes)}

\* _update_raw_sources_config reaches its write and is stopped there; the
\* process ends, no further call is made in this run
InterruptedRawSourcesConfig ==
    /\ ncalls < MaxCalls
    /\ \E source_name \in SourceNames, csv_path \in OkCsvPaths, c \in Coordinates :
        LET updated == UpdateRawSourcesConfigOf(raw_sources_file, source_name,
                                                csv_path, c[1], c[2])
        IN  /\ updated.outcome = "updated"
            /\ raw_sources_file' \in StoppedWriteOf(raw_sources_file, updated.file,
                                         RegistryWrites(updated.file.data))
            /\ last' = Recorded([NoCall EXCEPT !.op = "update_raw_sources_config",
                                               !.source_name = source_name,
                                               !.csv_path = csv_path,
                                               !.project_id = c[1],
                                               !.dataset_id = c[2],
                                               !.outcome = "interrupted"])
    /\ ncalls' = MaxCalls
    /\ UNCHANGED <<backup_file, staging_files, staging_yml_file>>
    /\ UNCHANGED <<adapterVars, dagVars>>

\* _update_staging_yml reaches its write and is stopped there; the process
\* ends, no further call is made in this run
InterruptedStagingYml ==
    /\ ncalls < MaxCalls
    /\ \E source_name \in SourceNames, model \in ModelNames, c \in Coordinates :
        LET written == UpdateStagingYmlOf(staging_yml_file, source_name,
                                          c[1], c[2], model)
        IN  /\ staging_yml_file' \in StoppedWriteOf(staging_yml_file, written,
                                         ManifestWrites(written.data))
            /\ last' = Recorded([NoCall EXCEPT !.op = "update_staging_yml",
                                               !.source_name = source_name,
                                               !.staging_model_name = model,
                                               !.project_id = c[1],
                                               !.dataset_id = c[2],
                                               !.outcome = "interrupted"])
    /\ ncalls' = MaxCalls
    /\ UNCHANGED <<raw_sources_file, backup_file, staging_files>>
    /\ UNCHANGED <<adapterVars, dagVars>>

NextInterrupted ==
    \/ NextIntegrator
    \/ InterruptedRawSourcesConfig
    \/ InterruptedStagingYml

\* ------------------------------------------------------------------------
\* One run of bank_etl_dag
\* ------------------------------------------------------------------------
LoadTasks == {"load_customers_raw", "load_loans_raw", "load_payments_raw"}
Tasks == LoadTasks \cup {"dbt_run", "dbt_test"}

\* DEFAULT_ARGS["retries"], applied to every task of the DAG
Retries == 1

\* [load_customers_raw, load_loans_raw, load_payments_raw] >> dbt_run >> dbt_test
Upstream(t) ==
    CASE t = "dbt_run" -> LoadTasks
      [] t = "dbt_test" -> {"dbt_run"}
      [] OTHER -> {}

\* faulty variant: one succeeded upstream task is enough
UpstreamOneSuccess(t) ==
    Upstream(t) = {} \/ \E u \in Upstream(t) : task_state[u] = "success"

\* no operator sets trigger_rule: a task is run once all its upstream tasks
\* have succeeded
UpstreamSucceeded(t) == \A u \in Upstream(t) : task_state[u] = "success"

\* a new DAG run: no task instance has a state yet
DagRunNew ==
    /\ task_state = [t \in Tasks |-> "none"]
    /\ try_number = [t \in Tasks |-> 0]

\* the scheduler starts a try of the task
StartTask(t) ==
    /\ task_state[t] \in {"none", "up_for_retry"}
    /\ UpstreamSucceeded(t)
    /\ task_state' = [task_state EXCEPT ![t] = "running"]
    /\ try_number' = [try_number EXCEPT ![t] = @ + 1]
    /\ UNCHANGED <<adapterVars, integratorVars>>

\* load_csv_to_bq returns, or the dbt command exits with 0
TaskSucceeds(t) ==
    /\ task_state[t] = "running"
    /\ task_state' = [task_state EXCEPT ![t] = "success"]
    /\ UNCHANGED try_number
    /\ UNCHANGED <<adapterVars, integratorVars>>

\* load_csv_to_bq raises, or the dbt command exits with another code: the
\* task is tried again while it has retries left
TaskFails(t) ==
    /\ task_state[t] = "running"
    /\ task_state' = [task_state EXCEPT
           ![t] = IF try_number[t] <= Retries THEN "up_for_retry" ELSE "failed"]
    /\ UNCHANGED try_number
    /\ UNCHANGED <<adapterVars, integratorVars>>

\* a task with a failed upstream task is not run
UpstreamFailed(t) ==
    /\ task_state[t] = "none"
    /\ \E u \in Upstream(t) : task_state[u] \in {"failed", "upstream_failed"}
    /\ task_state' = [task_state EXCEPT ![t] = "upstream_failed"]
    /\ UNCHANGED try_number
    /\ UNCHANGED <<adapterVars, integratorVars>>

NextDag ==
    \E t \in Tasks :
        \/ StartTask(t)
        \/ TaskSucceeds(t)
        \/ TaskFails(t)
        \/ UpstreamFailed(t)

\* ------------------------------------------------------------------------
\* Specifications
\* ------------------------------------------------------------------------
Init == AdapterIdle /\ IntegratorInit /\ DagRunNew
Next == NextIntegrator
Spec == Init /\ [][Next]_vars

InitAdapter == AdapterInit /\ IntegratorIdle /\ DagRunNew
SpecAdapter == InitAdapter /\ [][NextAdapter]_vars

\* the adapter on headers of identifier, amount, ratio and target columns
InitCasts == AdapterInitCasts /\ IntegratorIdle /\ DagRunNew
SpecCasts == InitCasts /\ [][NextAdapter]_vars

\* add_dataset calls only, on a project that has no configuration files yet
InitAbsent == AdapterIdle /\ IntegratorIdle /\ DagRunNew
SpecAddDataset == InitAbsent /\ [][AddDataset]_vars

\* one run of bank_etl_dag
InitDag == AdapterIdle /\ IntegratorIdle /\ DagRunNew
SpecDag == InitDag /\ [][NextDag]_vars

\* the integrator, with runs of the two mergers that stop inside the write;
\* the manifests start with their keys in the order version, sources, models
InitInterrupted ==
    /\ AdapterIdle
    /\ raw_sources_file \in InitialRegistries
    /\ staging_yml_file \in {AbsentFile, EditedManifest}
    /\ IntegratorNew
    /\ DagRunNew
SpecInterrupted == InitInterrupted /\ [][NextInterrupted]_vars

\* ------------------------------------------------------------------------
\* Properties of the adapter (checked under SpecAdapter)
\* ------------------------------------------------------------------------
\* the lower-cased names of the loaded header
HeaderLower == {StrLower(df.columns[i]) : i \in DOMAIN df.columns}

\* map_columns has run on the loaded header
Mapped == dataset_type /= "None" \/ detected_mappings /= EmptyDict

\* the aliases of canonical attribute c that are present in the header hl
PresentAliases(c, hl) ==
    {i \in DOMAIN COLUMN_MAPPINGS[c] : COLUMN_MAPPINGS[c][i] \in hl}

MinOf(S) == CHOOSE i \in S : \A j \in S : i <= j

\* number of lines of the projection that define output column c
LinesFor(cols, c) == Cardinality({i \in DOMAIN cols : StrEndsWith(cols[i], " as " \o c)})

\* C5: once map_columns has run, every canonical attribute with an alias in
\* the header is mapped to a header column whose lower-cased name is the
\* earliest alias of its list that the header holds; which alias wins depends
\* on the set of header names only, not on their order.
C5_FirstMatchWins ==
    Mapped =>
        LET hl == HeaderLower
        IN  \A c \in StandardColSet :
                LET present == PresentAliases(c, hl)
                IN  present /= {} =>
                        /\ c \in DOMAIN detected_mappings
                        /\ InList(detected_mappings[c], df.columns)
                        /\ StrLower(detected_mappings[c])
                               = COLUMN_MAPPINGS[c][MinOf(present)]

\* the header lists sk_id_curr before uniqueid, and uniqueid (declared first) wins
C5_Witness ==
    /\ Mapped
    /\ \E i, j \in DOMAIN df.columns :
           i < j /\ df.columns[i] = "SK_ID_CURR" /\ df.columns[j] = "UniqueID"
    /\ "loan_id" \in DOMAIN detected_mappings
    /\ detected_mappings["loan_id"] = "UniqueID"

\* C6: an attribute with no alias in the header is absent from the mapping,
\* and the projection generate_staging_sql builds has exactly one line for
\* every attribute of the mapping it read and no line for any other.
C6_ProjectionMatchesMapping ==
    /\ Mapped =>
          LET hl == HeaderLower
          IN  \A c \in StandardColSet :
                  PresentAliases(c, hl) = {} => c \notin DOMAIN detected_mappings
    /\ generated.called =>
          /\ DOMAIN generated.mappings \subseteq StandardColSet
          /\ Len(generated.select_cols) = Cardinality(DOMAIN generated.mappings)
          /\ \A c \in StandardColSet :
                 LinesFor(generated.select_cols, c)
                     = IF c \in DOMAIN generated.mappings THEN 1 ELSE 0

\* a partial mapping was projected: the target is mapped, the loan amount is not
C6_Witness ==
    /\ Mapped
    /\ generated.called
    /\ generated.mappings = detected_mappings
    /\ "loan_default" \in DOMAIN detected_mappings
    /\ "loan_amount" \notin DOMAIN detected_mappings
    /\ LinesFor(generated.select_cols, "loan_amount") = 0

\* C7 as stated: a header holding any of the signature columns gets its
\* family's tag (home credit first), a header holding none gets 'generic'.
C7_AnySignatureColumn ==
    ret_type /= "None" =>
        LET hl == HeaderLower
        IN  /\ "sk_id_curr" \in hl => ret_type = "home_credit"
            /\ ("sk_id_curr" \notin hl /\ ("uniqueid" \in hl \/ "disbursaldate" \in hl))
                   => ret_type = "vehicle_loan"
            /\ ("sk_id_curr" \notin hl /\ "uniqueid" \notin hl /\ "disbursaldate" \notin hl)
                   => ret_type = "generic"

\* C7 amended: detect_dataset_type returns 'home_credit' when the header holds
\* sk_id_curr; otherwise 'vehicle_loan' when it holds both uniqueid and
\* disbursaldate; otherwise 'generic', also when it holds only one of the two.
C7_DetectDatasetType ==
    ret_type /= "None" =>
        LET hl == HeaderLower
        IN  /\ ret_type = "home_credit" <=> "sk_id_curr" \in hl
            /\ ret_type = "vehicle_loan" <=>
                   ("sk_id_curr" \notin hl /\ "uniqueid" \in hl /\ "disbursaldate" \in hl)
            /\ ret_type = "generic" <=>
                   ("sk_id_curr" \notin hl /\ ~("uniqueid" \in hl /\ "disbursaldate" \in hl))

\* a header with uniqueid but without disbursaldate was detected as generic
C7_Witness ==
    /\ ret_type = "generic"
    /\ "uniqueid" \in HeaderLower
    /\ "disbursaldate" \notin HeaderLower

\* C8: for each mapped date attribute the projection holds the day-offset
\* line exactly when the lower-cased raw column name contains 'days', and
\* otherwise the safe.parse_date line with the pattern %d-%m-%y.
C8_DateParsingPolicy ==
    generated.called =>
        \A c \in {"application_date", "date_of_birth"} \cap DOMAIN generated.mappings :
            LET raw == generated.mappings[c]
                offset == "    date_add(current_date(), interval cast(" \o raw
                              \o " as int64) day) as " \o c
                parse == "    safe.parse_date('%d-%m-%y', cast(" \o raw
                              \o " as string)) as " \o c
            IN  IF StrContains(StrLower(raw), "days")
                THEN InList(offset, generated.select_cols)
                     /\ ~InList(parse, generated.select_cols)
                ELSE InList(parse, generated.select_cols)
                     /\ ~InList(offset, generated.select_cols)

\* both policies in one projection: DAYS_BIRTH by offset, DisbursalDate parsed
C8_Witness ==
    /\ generated.called
    /\ "date_of_birth" \in DOMAIN generated.mappings
    /\ generated.mappings["date_of_birth"] = "DAYS_BIRTH"
    /\ "application_date" \in DOMAIN generated.mappings
    /\ generated.mappings["application_date"] = "DisbursalDate"
    /\ InList("    date_add(current_date(), interval cast(DAYS_BIRTH as int64) day) as date_of_birth",
              generated.select_cols)
    /\ InList("    safe.parse_date('%d-%m-%y', cast(DisbursalDate as string)) as application_date",
              generated.select_cols)

\* the scenario's header, analysed and then projected
ScenarioHeader == <<"SK_ID_CURR", "AMT_CREDIT", "DAYS_BIRTH", "TARGET">>

ScenarioDone ==
    /\ csv_header = ScenarioHeader
    /\ dataset_type /= "None"
    /\ generated.called
    /\ generated.mappings = detected_mappings

\* C9 as stated: the scenario maps four attributes and projects four columns.
C9_FourColumns ==
    ScenarioDone =>
        /\ dataset_type = "home_credit"
        /\ detected_mappings = [customer_id |-> "SK_ID_CURR", loan_amount |-> "AMT_CREDIT",
                                date_of_birth |-> "DAYS_BIRTH", loan_default |-> "TARGET"]
        /\ Len(generated.select_cols) = 4
        /\ InList("    date_add(current_date(), interval cast(DAYS_BIRTH as int64) day) as date_of_birth",
                  generated.select_cols)

\* C9 amended: for the scenario's header the family is home_credit, the mapping
\* is the stated four entries plus loan_id: SK_ID_CURR (sk_id_curr is an alias
\* of loan_id too), and the query projects five columns, date_of_birth by the
\* day-offset rule.
C9_EndToEnd ==
    ScenarioDone =>
        /\ dataset_type = "home_credit"
        /\ detected_mappings = [loan_id |-> "SK_ID_CURR", customer_id |-> "SK_ID_CURR",
                                loan_amount |-> "AMT_CREDIT", date_of_birth |-> "DAYS_BIRTH",
                                loan_default |-> "TARGET"]
        /\ generated.select_cols =
               <<"    cast(SK_ID_CURR as string) as loan_id",
                 "    cast(SK_ID_CURR as string) as customer_id",
                 "    date_add(current_date(), interval cast(DAYS_BIRTH as int64) day) as date_of_birth",
                 "    cast(AMT_CREDIT as numeric) as loan_amount",
                 "    cast(TARGET as int64) as loan_default">>

C9_Witness ==
    /\ ScenarioDone
    /\ Len(generated.select_cols) = 5
    /\ "loan_id" \in DOMAIN detected_mappings

\* the line of the projection that casts the column mapped to c to type
CastTo(c, type) ==
    "    cast(" \o generated.mappings[c] \o " as " \o type \o ") as " \o c

ProjectedAs(c, type) ==
    c \in DOMAIN generated.mappings =>
        /\ InList(CastTo(c, type), generated.select_cols)
        /\ LinesFor(generated.select_cols, c) = 1

\* C12: in the synthesized query every mapped amount-like or ratio-like
\* attribute (loan_amount, asset_cost, ltv_ratio) is projected with a cast to
\* numeric, every mapped identifier (loan_id, customer_id) with a cast to
\* string, and the target loan_default with a cast to int64.
C12_CastTypes ==
    generated.called =>
        /\ \A c \in {"loan_amount", "asset_cost", "ltv_ratio"} : ProjectedAs(c, "numeric")
        /\ \A c \in {"loan_id", "customer_id"} : ProjectedAs(c, "string")
        /\ ProjectedAs("loan_default", "int64")

\* a query over a mapping that holds both identifiers, an amount, the ratio
\* and the target
C12_Witness ==
    /\ generated.called
    /\ {"loan_id", "customer_id", "asset_cost", "ltv_ratio", "loan_default"}
           \subseteq DOMAIN generated.mappings
    /\ InList(CastTo("asset_cost", "numeric"), generated.select_cols)
    /\ InList(CastTo("loan_id", "string"), generated.select_cols)
    /\ InList(CastTo("loan_default", "int64"), generated.select_cols)

\* ------------------------------------------------------------------------
\* Properties of the config mergers and of add_dataset (checked under Spec)
\* ------------------------------------------------------------------------
\* the raw_sources list of a registry file (empty when absent)
RegistryEntries(file) ==
    LET d == LoadedOrEmpty(file)
    IN  IF "raw_sources" \in DOMAIN d THEN d["raw_sources"] ELSE <<>>

\* how many elements of the list carry the name
CountNamed(list, name) == Cardinality({i \in DOMAIN list : list[i].name = name})

\* the call registered (or found registered) this logical name
RegisteredName(call) ==
    IF call.op = "update_raw_sources_config" THEN call.source_name
    ELSE SourceName(call.csv_path)

RegistryCall(call) ==
    \/ call.op = "update_raw_sources_config"
    \/ call.op = "add_dataset" /\ call.outcome = "integrated"

\* C1: the registry never holds two entries with one name, and after a
\* registry upsert (also a repeated one) the name it was called with has
\* exactly one entry.
C1_RegistryIdempotent ==
    LET entries == RegistryEntries(raw_sources_file)
    IN  /\ Distinct(NamesOf(entries))
        /\ RegistryCall(last) => CountNamed(entries, RegisteredName(last)) = 1

\* the same call was made twice: the second one skipped, one entry stands
C1_Witness ==
    /\ last.op = "update_raw_sources_config"
    /\ last.repeat
    /\ last.outcome = "skip"
    /\ CountNamed(RegistryEntries(raw_sources_file), last.source_name) = 1

\* C2: a registry upsert for a name that is already registered reports a skip
\* and leaves the file as it is; for a new name it leaves the earlier entries
\* in place and in order and appends one entry with that name after them.
C2_RegistryAppendOnly ==
    [][last'.op = "update_raw_sources_config" =>
          LET before == RegistryEntries(raw_sources_file)
              after == RegistryEntries(raw_sources_file')
          IN  IF InList(last'.source_name, NamesOf(before))
              THEN /\ last'.outcome = "skip"
                   /\ raw_sources_file' = raw_sources_file
              ELSE /\ last'.outcome = "updated"
                   /\ raw_sources_file'.exists
                   /\ Len(after) = Len(before) + 1
                   /\ SubSeq(after, 1, Len(before)) = before
                   /\ after[Len(after)].name = last'.source_name
                   /\ after[Len(after)].project_id = last'.project_id
                   /\ after[Len(after)].dataset_id = last'.dataset_id]_vars

\* a new entry was appended behind an entry that was there before
C2_Witness ==
    /\ last.op = "update_raw_sources_config"
    /\ last.outcome = "updated"
    /\ Len(RegistryEntries(raw_sources_file)) >= 2
    /\ RegistryEntries(raw_sources_file)[1].name /= last.source_name

\* the source blocks and the model entries of a manifest file
ManifestSources(file) ==
    IF file.exists /\ "sources" \in DOMAIN file.data THEN file.data["sources"] ELSE <<>>

ManifestModels(file) ==
    IF file.exists /\ "models" \in DOMAIN file.data THEN file.data["models"] ELSE <<>>

\* the indices of the source blocks named 'raw'
RawBlocks(file) ==
    {i \in DOMAIN ManifestSources(file) : ManifestSources(file)[i].name = "raw"}

\* the first 'raw' block (there must be one)
RawBlock(file) == ManifestSources(file)[MinOf(RawBlocks(file))]

\* the tables of the 'raw' block (empty when there is no block or no list)
RawTables(file) ==
    IF RawBlocks(file) /= {} /\ "tables" \in DOMAIN RawBlock(file)
    THEN RawBlock(file)["tables"]
    ELSE <<>>

ManifestCall(call) ==
    \/ call.op = "update_staging_yml"
    \/ call.op = "add_dataset" /\ call.outcome = "integrated"

\* C3: after every manifest upsert the 'raw' block lists each table once and
\* the models list holds each model once, the names of the call included; a
\* call that repeats the call before it leaves the manifest as that call left it.
C3_ManifestIdempotent ==
    [][ManifestCall(last') =>
          /\ Distinct(NamesOf(RawTables(staging_yml_file')))
          /\ Distinct(NamesOf(ManifestModels(staging_yml_file')))
          /\ last'.op = "update_staging_yml" =>
                /\ CountNamed(RawTables(staging_yml_file'), last'.source_name) = 1
                /\ CountNamed(ManifestModels(staging_yml_file'),
                              last'.staging_model_name) = 1
          /\ last'.repeat => staging_yml_file' = staging_yml_file]_vars

\* the same manifest upsert was made twice
C3_Witness ==
    /\ last.op = "update_staging_yml"
    /\ last.repeat
    /\ CountNamed(RawTables(staging_yml_file), last.source_name) = 1
    /\ CountNamed(ManifestModels(staging_yml_file), last.staging_model_name) = 1

\* C4: a manifest upsert keeps the database and the schema an existing 'raw'
\* block already has, fills a missing one from its arguments, creates the
\* block from its arguments when there is none, and leaves exactly one 'raw'
\* block.
C4_CoordinatesKept ==
    [][ManifestCall(last') =>
          LET had == RawBlocks(staging_yml_file) /= {}
              after == RawBlock(staging_yml_file')
          IN  /\ Cardinality(RawBlocks(staging_yml_file')) = 1
              /\ after["database"] =
                     IF had /\ "database" \in DOMAIN RawBlock(staging_yml_file)
                     THEN RawBlock(staging_yml_file)["database"]
                     ELSE last'.project_id
              /\ after["schema"] =
                     IF had /\ "schema" \in DOMAIN RawBlock(staging_yml_file)
                     THEN RawBlock(staging_yml_file)["schema"]
                     ELSE last'.dataset_id]_vars

\* an upsert with another project id ran on the hand-edited manifest
C4_Witness ==
    /\ last.op = "update_staging_yml"
    /\ RawBlocks(staging_yml_file) /= {}
    /\ RawBlock(staging_yml_file)["database"] = "manual-project"
    /\ RawBlock(staging_yml_file)["schema"] = "manual_raw"
    /\ last.project_id /= "manual-project"
    /\ InList(last.source_name, NamesOf(RawTables(staging_yml_file)))

\* the file is not there, does not start with a header row, or is not
\* delimited text
BadCsv(csv_path) ==
    \/ CsvFiles[csv_path].status /= "ok"
    \/ ~CsvFiles[csv_path].has_header

\* C10: add_dataset on a CSV that does not exist, has no header or cannot be
\* parsed ends in an error and leaves the registry, its backup, the staging
\* SQL files and the manifest exactly as they were.
C10_FailFast ==
    [][(last'.op = "add_dataset" /\ BadCsv(last'.csv_path)) =>
          /\ last'.outcome = "error"
          /\ raw_sources_file' = raw_sources_file
          /\ backup_file' = backup_file
          /\ staging_files' = staging_files
          /\ staging_yml_file' = staging_yml_file]_vars

\* C11: when a merger is stopped or fails at any step, the configuration file
\* on disk is either the untouched original or the complete new content,
\* never an empty or cut-off file.
C11_AllOrNothing ==
    [][last'.outcome = "interrupted" =>
          /\ last'.op = "update_raw_sources_config" =>
                 \/ raw_sources_file' = raw_sources_file
                 \/ raw_sources_file' =
                        UpdateRawSourcesConfigOf(raw_sources_file, last'.source_name,
                            last'.csv_path, last'.project_id, last'.dataset_id).file
          /\ last'.op = "update_staging_yml" =>
                 \/ staging_yml_file' = staging_yml_file
                 \/ staging_yml_file' =
                        UpdateStagingYmlOf(staging_yml_file, last'.source_name,
                            last'.project_id, last'.dataset_id,
                            last'.staging_model_name)]_vars

\* the names carried by the elements of a list
NameSet(list) == {list[i].name : i \in DOMAIN list}

\* the staging model of the registered source <t>_raw
ModelOfSource(name) == "stg_" \o SubSeq(name, 1, Len(name) - Len("_raw"))

\* C14: starting without configuration files, after any sequence of completed
\* add_dataset calls the names in the raw-source registry are the table names
\* of the manifest's 'raw' block, and every registered <t>_raw has a model
\* entry stg_<t> in the manifest.
C14_RegistryManifestInStep ==
    LET registered == NameSet(RegistryEntries(raw_sources_file))
    IN  /\ registered = NameSet(RawTables(staging_yml_file))
        /\ \A name \in registered :
               /\ StrEndsWith(name, "_raw")
               /\ ModelOfSource(name) \in NameSet(ManifestModels(staging_yml_file))

\* two datasets were integrated, the second after the first
C14_Witness ==
    /\ last.op = "add_dataset"
    /\ last.outcome = "integrated"
    /\ NameSet(RegistryEntries(raw_sources_file))
           = {"application_train_raw", "vehicle_loans_raw"}
    /\ NameSet(ManifestModels(staging_yml_file))
           = {"stg_application_train", "stg_vehicle_loans"}

\* ------------------------------------------------------------------------
\* Properties of a run of bank_etl_dag (checked under SpecDag)
\* ------------------------------------------------------------------------
\* a try of the task was started
Started(t) == try_number[t] > 0

LoadFailed == \E l \in LoadTasks : task_state[l] = "failed"

\* C15: dbt_run is started only once all three load tasks have succeeded and
\* dbt_test only once dbt_run has succeeded; a load task that has not run yet
\* can be started whatever the state of the other two; a load task fails for
\* good only after its retry, and from then on neither dbt_run nor dbt_test
\* is ever started.
C15_TaskOrdering ==
    /\ [](/\ Started("dbt_run") => \A l \in LoadTasks : task_state[l] = "success"
          /\ Started("dbt_test") => task_state["dbt_run"] = "success"
          /\ \A l \in LoadTasks :
                 /\ task_state[l] = "none" => ENABLED StartTask(l)
                 /\ task_state[l] = "failed" => try_number[l] = Retries + 1
          /\ LoadFailed => ~Started("dbt_run") /\ ~Started("dbt_test"))
    /\ [][LoadFailed => LoadFailed']_vars

\* dbt_test was started in a run whose load tasks needed different numbers
\* of tries
C15_Witness ==
    /\ Started("dbt_test")
    /\ task_state["dbt_run"] = "success"
    /\ try_number["load_loans_raw"] = 2
    /\ try_number["load_customers_raw"] = 1
    /\ \A l \in LoadTasks : task_state[l] = "success"

====
